---------------------------- MODULE Spec2Model ----------------------------
(***************************************************************************)
(* Model of db.go of the entity package: the four per-type statement       *)
(* caches, the statement builders with the identifier quoter, and the      *)
(* load / insert / update / delete execution protocol.                     *)
(*                                                                         *)
(* Text is a sequence of fragments.  The literal pieces of the format      *)
(* strings of db.go are one fragment each ("SELECT ", " WHERE", ...);      *)
(* table and column names are sequences of one-character fragments, so    *)
(* the quoter can strip, split and escape them character by character.     *)
(* An error value is a sequence too: <<>> is the nil error, and            *)
(* fmt.Errorf(prefix + "%w", e) puts the prefix in front of e's message.   *)
(***************************************************************************)
EXTENDS Integers, Sequences, FiniteSets, TLC

(***************************************************************************)
(* Bounds of the model.                                                    *)
(***************************************************************************)
\* longest Columns list the builder specification enumerates
MaxCols == 2
\* largest affected-row count a command reports
MaxRows == 1
\* largest id the driver reports as last inserted
MaxId == 1

\* the longest name given to the quoters, in characters
MaxNameLen == 4

\* the longest error message given to isConflictError, in fragments
MaxMsgLen == 3

(***************************************************************************)
(* Driver names and the dialect resolver.                                  *)
(***************************************************************************)
driverMysql == "mysql"

driverPostgres == "postgres"

driverSqlite3 == "sqlite3"

\* driverAlias: the alias table, a function on the aliased names
driverAlias == [dv \in {"pgx"} |-> driverPostgres]

\* the names DriverName() of a handle may report; "oracle" is a name the
\* package does not know
DriverNames == {driverMysql, driverPostgres, "pgx", driverSqlite3, "oracle"}

dbDriver(dv) == IF dv \in DOMAIN driverAlias THEN driverAlias[dv] ELSE dv

(***************************************************************************)
(* The three characters the quoter treats specially.  A TLA+ string cannot *)
(* hold the character U+0060 (the MySQL quote), so it is written as an     *)
(* apostrophe, a character no name of the model contains otherwise.        *)
(***************************************************************************)
BackQuote == "'"

DoubleQuote == "\""

Backslash == "\\"

(***************************************************************************)
(* Text helpers: strings.Join, strings.ReplaceAll, strings.Split, %q.      *)
(***************************************************************************)
RECURSIVE Join(_, _)
Join(parts, sep) ==
    IF Len(parts) = 0 THEN <<>>
    ELSE IF Len(parts) = 1 THEN parts[1]
    ELSE parts[1] \o sep \o Join(Tail(parts), sep)

RECURSIVE ReplaceAll(_, _)
\* strings.ReplaceAll(name, symbol, ""), symbol one character
ReplaceAll(name, symbol) ==
    IF Len(name) = 0 THEN <<>>
    ELSE IF Head(name) = symbol THEN ReplaceAll(Tail(name), symbol)
    ELSE <<Head(name)>> \o ReplaceAll(Tail(name), symbol)

RECURSIVE SplitFrom(_, _, _)
\* strings.Split(name, "."): cur is the segment being read
SplitFrom(name, cur, acc) ==
    IF Len(name) = 0 THEN Append(acc, cur)
    ELSE IF Head(name) = "." THEN SplitFrom(Tail(name), <<>>, Append(acc, cur))
    ELSE SplitFrom(Tail(name), Append(cur, Head(name)), acc)

Split(name) == SplitFrom(name, <<>>, <<>>)

RECURSIVE GoEscape(_)
\* the body of a %q literal: a double quote and a backslash are escaped
GoEscape(name) ==
    IF Len(name) = 0 THEN <<>>
    ELSE (IF Head(name) \in {DoubleQuote, Backslash} THEN <<Backslash, Head(name)>>
          ELSE <<Head(name)>>) \o GoEscape(Tail(name))

(***************************************************************************)
(* Conflict classifier.  An error message is a sequence of fragments; the  *)
(* phrase a dialect reports a unique-constraint violation with is two      *)
(* fragments, so a message can hold half of a phrase, or the phrase of     *)
(* another dialect.                                                        *)
(***************************************************************************)
PostgresConflict == <<"duplicate key value violates", " unique constraint">>

MysqlConflict == <<"Duplicate", " entry">>

Sqlite3Conflict == <<"UNIQUE constraint", " failed">>

RECURSIVE Contains(_, _)
\* strings.Contains(s, substr)
Contains(s, substr) ==
    IF Len(s) < Len(substr) THEN FALSE
    ELSE IF SubSeq(s, 1, Len(substr)) = substr THEN TRUE
    ELSE Contains(Tail(s), substr)

\* isConflictError that compares DriverName() itself, without dbDriver
isConflictErrorRawName(dv, err) ==
    IF dv = driverPostgres THEN Contains(err, PostgresConflict)
    ELSE IF dv = driverMysql THEN Contains(err, MysqlConflict)
    ELSE IF dv = driverSqlite3 THEN Contains(err, Sqlite3Conflict)
    ELSE FALSE

\* err is the text of err.Error()
isConflictError(dv, err) ==
    LET driver == dbDriver(dv)
        s == err
    IN  IF driver = driverPostgres THEN Contains(s, PostgresConflict)
        ELSE IF driver = driverMysql THEN Contains(s, MysqlConflict)
        ELSE IF driver = driverSqlite3 THEN Contains(s, Sqlite3Conflict)
        ELSE FALSE

(***************************************************************************)
(* Identifier quoter.                                                      *)
(***************************************************************************)
quoteColumn(name, driver) ==
    IF driver = driverMysql THEN <<BackQuote>> \o name \o <<BackQuote>>
    ELSE <<DoubleQuote>> \o GoEscape(name) \o <<DoubleQuote>>

RECURSIVE quoteSegments(_, _)
quoteSegments(segs, symbol) ==
    IF Len(segs) = 0 THEN <<>>
    ELSE <<(IF Head(segs) # <<"*">>
            THEN <<symbol>> \o Head(segs) \o <<symbol>>
            ELSE Head(segs))>> \o quoteSegments(Tail(segs), symbol)

\* quoteIdentifier without the removal of the symbol from the name
quoteIdentifierKeepsSymbol(name, driver) ==
    LET symbol == IF driver = driverMysql THEN BackQuote ELSE DoubleQuote
    IN  Join(quoteSegments(Split(name), symbol), <<".">>)

quoteIdentifier(name, driver) ==
    LET symbol == IF driver = driverMysql THEN BackQuote ELSE DoubleQuote
    IN  Join(quoteSegments(Split(ReplaceAll(name, symbol)), symbol), <<".">>)

(***************************************************************************)
(* Statement builders.  Each loop of the source is a recursive operator    *)
(* over the index of the column it visits.                                 *)
(***************************************************************************)
\* ":" + DBField, the named placeholder
Placeholder(col) == <<":">> \o col.DBField

\* pkPredicates that writes no predicate
pkPredicatesNone(pks, i, driver, first) == <<>>

\* pkPredicates that stops after the first key
pkPredicatesFirstOnly(pks, i, driver, first) ==
    IF Len(pks) = 0 THEN <<>>
    ELSE first \o quoteColumn(pks[1].DBField, driver) \o <<" = ">> \o Placeholder(pks[1])

RECURSIVE pkPredicates(_, _, _, _)
\* the loop over md.PrimaryKeys shared by select, update and delete; first is
\* the text put before the first predicate
pkPredicates(pks, i, driver, first) ==
    IF i > Len(pks) THEN <<>>
    ELSE (IF i = 1 THEN first ELSE <<" AND ">>)
         \o quoteColumn(pks[i].DBField, driver) \o <<" = ">> \o Placeholder(pks[i])
         \o pkPredicates(pks, i + 1, driver, first)

RECURSIVE selectColumns(_, _, _)
selectColumns(cols, i, driver) ==
    IF i > Len(cols) THEN <<>>
    ELSE <<quoteColumn(cols[i].DBField, driver)>> \o selectColumns(cols, i + 1, driver)

selectStatement(md, driver) ==
    <<"SELECT ">> \o Join(selectColumns(md.Columns, 1, driver), <<", ">>)
    \o <<" FROM ">> \o quoteIdentifier(md.TableName, driver) \o <<" WHERE">>
    \o pkPredicates(md.PrimaryKeys, 1, driver, <<" ">>)
    \o <<" LIMIT 1">>

RECURSIVE insertLoopKeepsAuto(_, _, _, _)
\* insertLoop without the test of AutoIncrement
insertLoopKeepsAuto(cols, i, driver, acc) ==
    IF i > Len(cols) THEN acc
    ELSE LET col == cols[i]
             c == quoteColumn(col.DBField, driver)
         IN  IF col.ReturningInsert
             THEN insertLoopKeepsAuto(cols, i + 1, driver,
                                      [acc EXCEPT !.returnings = Append(@, c)])
             ELSE insertLoopKeepsAuto(cols, i + 1, driver,
                                      [acc EXCEPT !.columns = Append(@, c),
                                                  !.placeholder =
                                                      Append(@, <<":">> \o col.DBField)])

RECURSIVE insertLoop(_, _, _, _)
\* acc = [columns, returnings, placeholder], the three slices of the source
insertLoop(cols, i, driver, acc) ==
    IF i > Len(cols) THEN acc
    ELSE LET col == cols[i]
             c == quoteColumn(col.DBField, driver)
         IN  IF col.ReturningInsert
             THEN insertLoop(cols, i + 1, driver,
                             [acc EXCEPT !.returnings = Append(@, c)])
             ELSE IF ~col.AutoIncrement
             THEN insertLoop(cols, i + 1, driver,
                             [acc EXCEPT !.columns = Append(@, c),
                                         !.placeholder = Append(@, Placeholder(col))])
             ELSE insertLoop(cols, i + 1, driver, acc)

insertStatement(md, driver) ==
    LET acc == insertLoop(md.Columns, 1, driver,
                          [columns |-> <<>>, returnings |-> <<>>, placeholder |-> <<>>])
    IN  <<"INSERT INTO ">> \o quoteIdentifier(md.TableName, driver)
        \o <<" (">> \o Join(acc.columns, <<", ">>)
        \o <<") VALUES (">> \o Join(acc.placeholder, <<", ">>) \o <<")">>
        \o (IF Len(acc.returnings) > 0
            THEN <<" RETURNING ">> \o Join(acc.returnings, <<", ">>)
            ELSE <<>>)

RECURSIVE updateLoopKeepsRefused(_, _, _, _)
\* updateLoop without the test of RefuseUpdate
updateLoopKeepsRefused(cols, i, driver, acc) ==
    IF i > Len(cols) THEN acc
    ELSE LET col == cols[i]
             c == quoteColumn(col.DBField, driver)
         IN  IF col.ReturningUpdate
             THEN updateLoopKeepsRefused(cols, i + 1, driver,
                                         [acc EXCEPT !.returnings = Append(@, c)])
             ELSE updateLoopKeepsRefused(cols, i + 1, driver,
                     [acc EXCEPT
                        !.stmt = @ \o (IF acc.set THEN <<", ">> ELSE <<" ">>)
                                   \o c \o <<" = ", ":">> \o col.DBField,
                        !.set = TRUE])

RECURSIVE updateLoop(_, _, _, _)
\* acc = [stmt, set, returnings]: the text so far, the flag set, the slice
updateLoop(cols, i, driver, acc) ==
    IF i > Len(cols) THEN acc
    ELSE LET col == cols[i]
             c == quoteColumn(col.DBField, driver)
         IN  IF col.ReturningUpdate
             THEN updateLoop(cols, i + 1, driver,
                             [acc EXCEPT !.returnings = Append(@, c)])
             ELSE IF ~col.RefuseUpdate
             THEN updateLoop(cols, i + 1, driver,
                             [acc EXCEPT
                                !.stmt = @ \o (IF acc.set THEN <<", ">> ELSE <<" ">>)
                                           \o c \o <<" = ">> \o Placeholder(col),
                                !.set = TRUE])
             ELSE updateLoop(cols, i + 1, driver, acc)

\* updateStatement that leaves the primary-key columns out of SET
updateStatementSkipsKeys(md, driver) ==
    LET keys == { md.PrimaryKeys[i].DBField : i \in 1..Len(md.PrimaryKeys) }
        rest == SelectSeq(md.Columns, LAMBDA c : c.DBField \notin keys)
        acc  == updateLoop(rest, 1, driver,
                           [stmt |-> <<"UPDATE ">> \o quoteIdentifier(md.TableName, driver)
                                     \o <<" SET">>,
                            set |-> FALSE, returnings |-> <<>>])
    IN  acc.stmt
        \o pkPredicates(md.PrimaryKeys, 1, driver, <<" WHERE ">>)
        \o (IF Len(acc.returnings) > 0
            THEN <<" RETURNING ">> \o Join(acc.returnings, <<", ">>)
            ELSE <<>>)

updateStatement(md, driver) ==
    LET acc == updateLoop(md.Columns, 1, driver,
                          [stmt |-> <<"UPDATE ">> \o quoteIdentifier(md.TableName, driver)
                                    \o <<" SET">>,
                           set |-> FALSE, returnings |-> <<>>])
    IN  acc.stmt
        \o pkPredicates(md.PrimaryKeys, 1, driver, <<" WHERE ">>)
        \o (IF Len(acc.returnings) > 0
            THEN <<" RETURNING ">> \o Join(acc.returnings, <<", ">>)
            ELSE <<>>)

deleteStatement(md, driver) ==
    <<"DELETE FROM ">> \o quoteIdentifier(md.TableName, driver) \o <<" WHERE">>
    \o pkPredicates(md.PrimaryKeys, 1, driver, <<" ">>)

(***************************************************************************)
(* Metadata.  getMetadata and the Metadata and Column types live outside   *)
(* db.go; db.go reads the fields named here.  hasReturningInsert and       *)
(* hasReturningUpdate are precomputed by the metadata subsystem: true iff  *)
(* a column carries the flag.                                              *)
(***************************************************************************)
Column(field, ai, ri, ru, refuse) ==
    [DBField |-> field, AutoIncrement |-> ai, ReturningInsert |-> ri,
     ReturningUpdate |-> ru, RefuseUpdate |-> refuse]

Metadata(type, table, columns, pks) ==
    [Type |-> type, TableName |-> table, Columns |-> columns, PrimaryKeys |-> pks,
     hasReturningInsert |-> \E i \in 1..Len(columns) : columns[i].ReturningInsert,
     hasReturningUpdate |-> \E i \in 1..Len(columns) : columns[i].ReturningUpdate]

\* the characters of a name, one fragment each
AccountTable == <<"a", "c", "c", "o", "u", "n", "t">>

IdField == <<"i", "d">>

EmailField == <<"e", "m", "a", "i", "l">>

CreatedAtField == <<"c", "r", "e", "a", "t", "e", "d", "_", "a", "t">>

\* Account{ID (primary key, auto-increment), Email, CreatedAt (RefuseUpdate)}
AccountColumns ==
    << Column(IdField, TRUE, FALSE, FALSE, FALSE),
       Column(EmailField, FALSE, FALSE, FALSE, FALSE),
       Column(CreatedAtField, FALSE, FALSE, FALSE, TRUE) >>

AccountMetadata ==
    Metadata("Account", AccountTable, AccountColumns, <<AccountColumns[1]>>)

\* Post{K (primary key, auto-increment, RefuseUpdate), T, V (returned by
\* INSERT and by UPDATE)} in table b.p
PostColumns ==
    << Column(<<"k">>, TRUE, FALSE, FALSE, TRUE),
       Column(<<"t">>, FALSE, FALSE, FALSE, FALSE),
       Column(<<"v">>, FALSE, TRUE, TRUE, FALSE) >>

PostMetadata == Metadata("Post", <<"b", ".", "p">>, PostColumns, <<PostColumns[1]>>)

\* Account with the primary key flagged RefuseUpdate as well
AccountKeyRefusedColumns ==
    << Column(IdField, TRUE, FALSE, FALSE, TRUE),
       Column(EmailField, FALSE, FALSE, FALSE, FALSE),
       Column(CreatedAtField, FALSE, FALSE, FALSE, TRUE) >>

AccountKeyRefusedMetadata ==
    Metadata("Account", AccountTable, AccountKeyRefusedColumns,
             <<AccountKeyRefusedColumns[1]>>)

(***************************************************************************)
(* The metadata the builder specification enumerates: every Columns list   *)
(* of at most MaxCols columns with every combination of the four flags,    *)
(* and every subsequence of it as PrimaryKeys.                             *)
(***************************************************************************)
\* the column at position i is named by the i-th letter
FieldName(i) == <<<<"a">>, <<"b">>, <<"c">>, <<"d">>>>[i]

ColumnsAt(i) ==
    { Column(FieldName(i), f[1], f[2], f[3], f[4]) : f \in [1..4 -> BOOLEAN] }

ColumnLists ==
    UNION { { cs \in [1..n -> UNION { ColumnsAt(i) : i \in 1..n }] :
                \A i \in 1..n : cs[i] \in ColumnsAt(i) } : n \in 0..MaxCols }

RECURSIVE Pick(_, _, _)
\* the subsequence of cols at the positions in keep, in Columns order
Pick(cols, keep, i) ==
    IF i > Len(cols) THEN <<>>
    ELSE (IF i \in keep THEN <<cols[i]>> ELSE <<>>) \o Pick(cols, keep, i + 1)

\* a schema-qualified table name
QualifiedTable == <<"s", ".", "t">>

EnumeratedMetadata ==
    { Metadata("T", QualifiedTable, cs, Pick(cs, keep, 1)) :
        cs \in ColumnLists, keep \in SUBSET (1..MaxCols) }

BuilderMetadata ==
    EnumeratedMetadata \cup {AccountMetadata, AccountKeyRefusedMetadata, PostMetadata}

(***************************************************************************)
(* The entity types of the protocol specification.  Account follows the   *)
(* plain command path of insert and update; Post has a column returned by  *)
(* INSERT and by UPDATE and follows the row-returning path.  Log declares   *)
(* no primary key.  A type that is not registered has no usable            *)
(* descriptor.  getMetadata is given the entity alone, not the operation,  *)
(* and fails for a type without descriptor and for a type without primary  *)
(* key alike.                                                              *)
(***************************************************************************)
LogMetadata ==
    Metadata("Log", <<"l">>, <<Column(<<"m">>, FALSE, FALSE, FALSE, FALSE)>>, <<>>)

Registry == [t \in {"Account", "Post", "Log"} |->
                IF t = "Account" THEN AccountMetadata
                ELSE IF t = "Post" THEN PostMetadata ELSE LogMetadata]

EntityTypes == {"Account", "Post", "Log", "Broken"}

(***************************************************************************)
(* Error values.                                                           *)
(***************************************************************************)
Nil == <<>>

\* sql.ErrNoRows
ErrNoRows == <<"sql: no rows in result set">>

\* the error getMetadata returns for an entity it cannot describe
MetadataErr == <<"metadata unavailable">>

\* an error of the driver: from the execution call, from rows.Err, from
\* RowsAffected or from LastInsertId
DriverErr == <<"driver error">>

\* the error of rows.StructScan
ScanErr == <<"scan error">>

\* fmt.Errorf(prefix + "%w", err): the result is never nil; a nil operand is
\* formatted as %!w(<nil>)
Errorf(prefix, err) == <<prefix>> \o (IF err = Nil THEN <<"%!w(<nil>)">> ELSE err)

getMetadata(ent) ==
    IF ent \in DOMAIN Registry /\ Len(Registry[ent].PrimaryKeys) > 0
    THEN [md |-> Registry[ent], err |-> Nil]
    ELSE [md |-> <<>>, err |-> MetadataErr]

(***************************************************************************)
(* What the database handle does with one statement.                       *)
(*   a query (NamedQueryContext and the rows it returns):                  *)
(*     queryErr  the call fails                                            *)
(*     noRows    rows.Next() is false, the result set is empty             *)
(*     nextErr   rows.Next() is false because reading the row failed       *)
(*     row       rows.Next() is true; scanErr: StructScan fails;           *)
(*               rowsErr: rows.Err() is not nil afterwards                 *)
(*   a command (NamedExecContext and the sql.Result it returns):           *)
(*     execErr   the call fails                                            *)
(*     done      it succeeds; n, nErr: RowsAffected; id, idErr:            *)
(*               LastInsertId                                              *)
(***************************************************************************)
QueryBehaviours ==
    { [kind |-> "queryErr"], [kind |-> "noRows"], [kind |-> "nextErr"],
      [kind |-> "row", scanErr |-> TRUE, rowsErr |-> FALSE] }
    \cup { [kind |-> "row", scanErr |-> FALSE, rowsErr |-> e] : e \in BOOLEAN }

\* RowsAffected of a successful command
AffectedBehaviours ==
    { [kind |-> "done", n |-> k, nErr |-> FALSE] : k \in 0..MaxRows }
    \cup { [kind |-> "done", n |-> 0, nErr |-> TRUE] }

\* LastInsertId of a successful command
LastIdBehaviours ==
    { [kind |-> "done", id |-> k, idErr |-> FALSE] : k \in 1..MaxId }
    \cup { [kind |-> "done", id |-> 0, idErr |-> TRUE] }

NoBehaviour == [kind |-> "none"]

(***************************************************************************)
(* What each handler does after its statement is in hand.  The value is    *)
(*   id, err   what the call returns (id is 0 for the handlers that       *)
(*             return an error only)                                       *)
(*   queries   calls of sqlx.NamedQueryContext                             *)
(*   execs     calls of db.NamedExecContext                                *)
(*   scanned   rows.StructScan was called on the entity                    *)
(*   askedRows result.RowsAffected was called                              *)
(*   askedId   result.LastInsertId was called                              *)
(***************************************************************************)
Outcome(id, err, queries, execs, scanned, askedRows, askedId) ==
    [id |-> id, err |-> err, queries |-> queries, execs |-> execs,
     scanned |-> scanned, askedRows |-> askedRows, askedId |-> askedId]

\* the outcome of a call that has not reached the database
NoOutcome(id, err) == Outcome(id, err, 0, 0, FALSE, FALSE, FALSE)

\* doLoadRows that wraps the not-found error like the scan error
doLoadRowsWrapsNotFound(b) ==
    IF b.kind = "queryErr" THEN Outcome(0, DriverErr, 1, 0, FALSE, FALSE, FALSE)
    ELSE IF b.kind # "row"
    THEN Outcome(0, Errorf("load, ", ErrNoRows), 1, 0, FALSE, FALSE, FALSE)
    ELSE IF b.scanErr
    THEN Outcome(0, Errorf("scan struct, ", ScanErr), 1, 0, TRUE, FALSE, FALSE)
    ELSE Outcome(0, IF b.rowsErr THEN DriverErr ELSE Nil, 1, 0, TRUE, FALSE, FALSE)

doLoadRows(b) ==
    IF b.kind = "queryErr" THEN Outcome(0, DriverErr, 1, 0, FALSE, FALSE, FALSE)
    ELSE IF b.kind # "row" THEN Outcome(0, ErrNoRows, 1, 0, FALSE, FALSE, FALSE)
    ELSE IF b.scanErr
    THEN Outcome(0, Errorf("scan struct, ", ScanErr), 1, 0, TRUE, FALSE, FALSE)
    ELSE Outcome(0, IF b.rowsErr THEN DriverErr ELSE Nil, 1, 0, TRUE, FALSE, FALSE)

doInsertRows(b) ==
    IF b.kind = "queryErr" THEN Outcome(0, DriverErr, 1, 0, FALSE, FALSE, FALSE)
    ELSE IF b.kind # "row" THEN Outcome(0, ErrNoRows, 1, 0, FALSE, FALSE, FALSE)
    ELSE IF b.scanErr
    THEN Outcome(0, Errorf("scan struct, ", ScanErr), 1, 0, TRUE, FALSE, FALSE)
    ELSE Outcome(0, IF b.rowsErr THEN DriverErr ELSE Nil, 1, 0, TRUE, FALSE, FALSE)

\* doInsertCommand that compares DriverName() itself, without dbDriver
doInsertCommandRawName(dv, b) ==
    IF b.kind = "execErr" THEN Outcome(0, DriverErr, 0, 1, FALSE, FALSE, FALSE)
    ELSE IF dv = driverPostgres
    THEN Outcome(0, Nil, 0, 1, FALSE, FALSE, FALSE)
    ELSE Outcome(b.id,
                 Errorf("get last insert id, ", IF b.idErr THEN DriverErr ELSE Nil),
                 0, 1, FALSE, FALSE, TRUE)

\* the command path of doInsert; dv is the handle's DriverName()
doInsertCommand(dv, b) ==
    IF b.kind = "execErr" THEN Outcome(0, DriverErr, 0, 1, FALSE, FALSE, FALSE)
    ELSE IF dbDriver(dv) = driverPostgres
    THEN Outcome(0, Nil, 0, 1, FALSE, FALSE, FALSE)
    ELSE Outcome(b.id,
                 Errorf("get last insert id, ", IF b.idErr THEN DriverErr ELSE Nil),
                 0, 1, FALSE, FALSE, TRUE)

doUpdateRows(b) ==
    IF b.kind = "queryErr" THEN Outcome(0, DriverErr, 1, 0, FALSE, FALSE, FALSE)
    ELSE IF b.kind # "row" THEN Outcome(0, ErrNoRows, 1, 0, FALSE, FALSE, FALSE)
    ELSE IF b.scanErr
    THEN Outcome(0, Errorf("scan struct, ", ScanErr), 1, 0, TRUE, FALSE, FALSE)
    ELSE Outcome(0, IF b.rowsErr THEN DriverErr ELSE Nil, 1, 0, TRUE, FALSE, FALSE)

\* doUpdateCommand that executes the statement again when RowsAffected fails
doUpdateCommandRetries(b) ==
    IF b.kind = "execErr" THEN Outcome(0, DriverErr, 0, 1, FALSE, FALSE, FALSE)
    ELSE IF b.nErr
    THEN Outcome(0, Errorf("get affected rows, ", DriverErr), 0, 2, FALSE, TRUE, FALSE)
    ELSE IF b.n = 0 THEN Outcome(0, ErrNoRows, 0, 1, FALSE, TRUE, FALSE)
    ELSE Outcome(0, Nil, 0, 1, FALSE, TRUE, FALSE)

\* doUpdateCommand without the test n == 0
doUpdateCommandUnchecked(b) ==
    IF b.kind = "execErr" THEN Outcome(0, DriverErr, 0, 1, FALSE, FALSE, FALSE)
    ELSE IF b.nErr
    THEN Outcome(0, Errorf("get affected rows, ", DriverErr), 0, 1, FALSE, TRUE, FALSE)
    ELSE Outcome(0, Nil, 0, 1, FALSE, TRUE, FALSE)

\* the command path of doUpdate
doUpdateCommand(b) ==
    IF b.kind = "execErr" THEN Outcome(0, DriverErr, 0, 1, FALSE, FALSE, FALSE)
    ELSE IF b.nErr
    THEN Outcome(0, Errorf("get affected rows, ", DriverErr), 0, 1, FALSE, TRUE, FALSE)
    ELSE IF b.n = 0 THEN Outcome(0, ErrNoRows, 0, 1, FALSE, TRUE, FALSE)
    ELSE Outcome(0, Nil, 0, 1, FALSE, TRUE, FALSE)

\* doDeleteCommand with the row-count test of doUpdate
doDeleteCommandChecked(b) ==
    IF b.kind = "execErr" THEN Outcome(0, DriverErr, 0, 1, FALSE, FALSE, FALSE)
    ELSE IF b.nErr
    THEN Outcome(0, Errorf("get affected rows, ", DriverErr), 0, 1, FALSE, TRUE, FALSE)
    ELSE IF b.n = 0 THEN Outcome(0, ErrNoRows, 0, 1, FALSE, TRUE, FALSE)
    ELSE Outcome(0, Nil, 0, 1, FALSE, TRUE, FALSE)

\* the command path of doDelete
doDeleteCommand(b) ==
    Outcome(0, IF b.kind = "execErr" THEN DriverErr ELSE Nil, 0, 1, FALSE, FALSE, FALSE)

(***************************************************************************)
(* State of the protocol.                                                  *)
(***************************************************************************)
Procs == {"g1", "g2"}

Kinds == {"select", "insert", "update", "delete"}

VARIABLES
    selectStatements,   \* the four package-level maps, entity type -> text
    insertStatements,
    updateStatements,
    deleteStatements,
    pc,                 \* where each goroutine is in its call
    call,               \* the call it runs: kind, entity type, DriverName()
    stmt,               \* its local variable stmt
    seen,               \* what the database handle did with its statement
    ret,                \* what its call returned and did
    builds,             \* how often each builder ran, per kind and type
    fatal,              \* the runtime stopped the program
    metadataCalls,      \* how often its call asked getMetadata
    input,              \* builder specification: the metadata and driver
    built,              \* builder specification: the last statement built
    ident,              \* quoting specification: the name and driver
    quoted,             \* quoting specification: what the quoters returned
    failure,            \* conflict specification: the error and driver
    verdict             \* conflict specification: what isConflictError said

vars == << selectStatements, insertStatements, updateStatements, deleteStatements,
           pc, call, stmt, seen, ret, builds, fatal, metadataCalls,
           input, built, ident, quoted, failure, verdict >>

\* the variables of the specifications of the pure functions
pure == << input, built, ident, quoted, failure, verdict >>

caches == << selectStatements, insertStatements, updateStatements, deleteStatements >>

\* the map a handler of this kind uses
Cache(kind) ==
    CASE kind = "select" -> selectStatements
      [] kind = "insert" -> insertStatements
      [] kind = "update" -> updateStatements
      [] kind = "delete" -> deleteStatements

\* the builder a handler of this kind calls
Build(kind, md, driver) ==
    CASE kind = "select" -> selectStatement(md, driver)
      [] kind = "insert" -> insertStatement(md, driver)
      [] kind = "update" -> updateStatement(md, driver)
      [] kind = "delete" -> deleteStatement(md, driver)

\* m[t] = s
Put(m, t, s) == [x \in DOMAIN m \cup {t} |-> IF x = t THEN s ELSE m[x]]

NoCall == [kind |-> "none", ent |-> "none", dv |-> "none"]

NoInput == [md |-> Metadata("T", <<>>, <<>>, <<>>), dv |-> "none"]

NoBuilt == [kind |-> "none", stmt |-> <<>>]

NoIdent == [name |-> <<>>, dv |-> "none"]

NoQuoted == [op |-> "none", once |-> <<>>, twice |-> <<>>, again |-> FALSE]

NoFailure == [msg |-> <<>>, dv |-> "none"]

NoVerdict == [called |-> FALSE, conflict |-> FALSE]

\* the package after its variables are initialized, no call made yet
Fresh ==
    /\ selectStatements = <<>>
    /\ insertStatements = <<>>
    /\ updateStatements = <<>>
    /\ deleteStatements = <<>>
    /\ pc = [p \in Procs |-> "idle"]
    /\ call = [p \in Procs |-> NoCall]
    /\ stmt = [p \in Procs |-> <<>>]
    /\ seen = [p \in Procs |-> NoBehaviour]
    /\ ret = [p \in Procs |-> NoOutcome(0, Nil)]
    /\ builds = [k \in Kinds, t \in DOMAIN Registry |-> 0]
    /\ fatal = FALSE
    /\ metadataCalls = [p \in Procs |-> 0]

Init ==
    /\ Fresh
    /\ input = NoInput
    /\ built = NoBuilt
    /\ ident = NoIdent
    /\ quoted = NoQuoted
    /\ failure = NoFailure
    /\ verdict = NoVerdict

(***************************************************************************)
(* The protocol.  A call of doLoad, doInsert, doUpdate or doDelete takes   *)
(* four steps, cut where it touches the shared maps:                       *)
(*   Start    getMetadata(ent) and the return on its error                 *)
(*   Lookup   stmt, ok := xStatements[md.Type], and on a miss the call of  *)
(*            the builder with dbDriver(db)                                *)
(*   Store    xStatements[md.Type] = stmt                                  *)
(*   do...Run the statement goes to the handle and the result is read      *)
(* The code takes no lock and uses no channel, so the steps of two         *)
(* goroutines interleave freely.  Each goroutine of Procs makes one call;  *)
(* a call made after another has returned is the second goroutine          *)
(* starting late.                                                          *)
(***************************************************************************)
\* what a handler returns when getMetadata fails, with the error unwrapped
metadataFailureUnwrapped(err) == NoOutcome(0, <<"get metadata">>)

\* return fmt.Errorf("get metadata, %w", err), with 0 before it in doInsert
metadataFailure(err) == NoOutcome(0, Errorf("get metadata, ", err))

Start(p, kind, ent, dv) ==
    /\ ~fatal
    /\ pc[p] = "idle"
    /\ call' = [call EXCEPT ![p] = [kind |-> kind, ent |-> ent, dv |-> dv]]
    /\ stmt' = [stmt EXCEPT ![p] = <<>>]
    /\ seen' = [seen EXCEPT ![p] = NoBehaviour]
    /\ LET m == getMetadata(ent)
       IN  IF m.err # Nil
           THEN /\ pc' = [pc EXCEPT ![p] = "done"]
                /\ ret' = [ret EXCEPT ![p] = metadataFailure(m.err)]
           ELSE /\ pc' = [pc EXCEPT ![p] = "lookup"]
                /\ ret' = [ret EXCEPT ![p] = NoOutcome(0, Nil)]
    /\ metadataCalls' = [metadataCalls EXCEPT ![p] = @ + 1]
    /\ UNCHANGED << caches, builds, fatal, pure >>

Lookup(p) ==
    /\ ~fatal
    /\ pc[p] = "lookup"
    /\ LET md == getMetadata(call[p].ent).md
           m  == Cache(call[p].kind)
       IN  IF md.Type \in DOMAIN m
           THEN /\ stmt' = [stmt EXCEPT ![p] = m[md.Type]]
                /\ pc' = [pc EXCEPT ![p] = "exec"]
                /\ UNCHANGED builds
           ELSE /\ stmt' = [stmt EXCEPT ![p] = Build(call[p].kind, md, dbDriver(call[p].dv))]
                /\ builds' = [builds EXCEPT ![call[p].kind, md.Type] = @ + 1]
                /\ pc' = [pc EXCEPT ![p] = "store"]
    /\ UNCHANGED << caches, call, seen, ret, fatal, metadataCalls, pure >>

Store(p) ==
    /\ ~fatal
    /\ pc[p] = "store"
    /\ LET md == getMetadata(call[p].ent).md
           k  == call[p].kind
       IN  /\ selectStatements' =
                IF k = "select" THEN Put(selectStatements, md.Type, stmt[p])
                ELSE selectStatements
           /\ insertStatements' =
                IF k = "insert" THEN Put(insertStatements, md.Type, stmt[p])
                ELSE insertStatements
           /\ updateStatements' =
                IF k = "update" THEN Put(updateStatements, md.Type, stmt[p])
                ELSE updateStatements
           /\ deleteStatements' =
                IF k = "delete" THEN Put(deleteStatements, md.Type, stmt[p])
                ELSE deleteStatements
    /\ pc' = [pc EXCEPT ![p] = "exec"]
    /\ UNCHANGED << call, stmt, seen, ret, builds, fatal, metadataCalls, pure >>

\* the end of a call: the handle did b with the statement, the handler made
\* o of it and returned, and its local stmt is gone
Finish(p, b, o) ==
    /\ seen' = [seen EXCEPT ![p] = b]
    /\ ret' = [ret EXCEPT ![p] = o]
    /\ stmt' = [stmt EXCEPT ![p] = <<>>]
    /\ pc' = [pc EXCEPT ![p] = "done"]
    /\ UNCHANGED << caches, call, builds, fatal, metadataCalls, pure >>

doLoadRun(p) ==
    /\ ~fatal
    /\ pc[p] = "exec"
    /\ call[p].kind = "select"
    /\ \E b \in QueryBehaviours : Finish(p, b, doLoadRows(b))

doInsertRun(p) ==
    /\ ~fatal
    /\ pc[p] = "exec"
    /\ call[p].kind = "insert"
    /\ IF getMetadata(call[p].ent).md.hasReturningInsert
       THEN \E b \in QueryBehaviours : Finish(p, b, doInsertRows(b))
       ELSE \E b \in {[kind |-> "execErr"]} \cup LastIdBehaviours :
                Finish(p, b, doInsertCommand(call[p].dv, b))

doUpdateRun(p) ==
    /\ ~fatal
    /\ pc[p] = "exec"
    /\ call[p].kind = "update"
    /\ IF getMetadata(call[p].ent).md.hasReturningUpdate
       THEN \E b \in QueryBehaviours : Finish(p, b, doUpdateRows(b))
       ELSE \E b \in {[kind |-> "execErr"]} \cup AffectedBehaviours :
                Finish(p, b, doUpdateCommand(b))

doDeleteRun(p) ==
    /\ ~fatal
    /\ pc[p] = "exec"
    /\ call[p].kind = "delete"
    /\ \E b \in {[kind |-> "execErr"]} \cup AffectedBehaviours :
            Finish(p, b, doDeleteCommand(b))

(***************************************************************************)
(* Unsynchronized access to a map.  p is about to write a map that q is    *)
(* about to read or write, and nothing orders the two accesses.  The Go    *)
(* runtime may let the accesses through in either order (the Lookup and    *)
(* Store steps) or detect them and stop the program with "fatal error:     *)
(* concurrent map writes" or "concurrent map read and map write".          *)
(***************************************************************************)
Racing(p, q) ==
    /\ p # q
    /\ pc[p] = "store"
    /\ pc[q] \in {"lookup", "store"}
    /\ call[p].kind = call[q].kind

Fatal ==
    /\ ~fatal
    /\ \E p \in Procs, q \in Procs : Racing(p, q)
    /\ fatal' = TRUE
    /\ UNCHANGED << caches, pc, call, stmt, seen, ret, builds, metadataCalls, pure >>

Next ==
    \/ \E p \in Procs, kind \in Kinds, ent \in EntityTypes, dv \in DriverNames :
            Start(p, kind, ent, dv)
    \/ \E p \in Procs : Lookup(p)
    \/ \E p \in Procs : Store(p)
    \/ \E p \in Procs : doLoadRun(p)
    \/ \E p \in Procs : doInsertRun(p)
    \/ \E p \in Procs : doUpdateRun(p)
    \/ \E p \in Procs : doDeleteRun(p)
    \/ Fatal

Spec == Init /\ [][Next]_vars

(***************************************************************************)
(* The builders on their own: a metadata value and a driver name are drawn *)
(* at the start, and one builder is run on them with the resolved dialect, *)
(* as the handlers do on a cache miss.                                     *)
(***************************************************************************)
BuildInit ==
    /\ Fresh
    /\ input \in [md : BuilderMetadata, dv : DriverNames]
    /\ built = NoBuilt
    /\ ident = NoIdent
    /\ quoted = NoQuoted
    /\ failure = NoFailure
    /\ verdict = NoVerdict

Builds(kind) ==
    /\ built = NoBuilt
    /\ built' = [kind |-> kind, stmt |-> Build(kind, input.md, dbDriver(input.dv))]
    /\ UNCHANGED << caches, pc, call, stmt, seen, ret, builds, fatal, metadataCalls,
                    input, ident, quoted, failure, verdict >>

buildSelect == Builds("select")

buildInsert == Builds("insert")

buildUpdate == Builds("update")

buildDelete == Builds("delete")

BuildNext == buildSelect \/ buildInsert \/ buildUpdate \/ buildDelete

BuildSpec == BuildInit /\ [][BuildNext]_vars

(***************************************************************************)
(* The quoters as functions: the name is any text of up to MaxNameLen      *)
(* characters, among them both quote characters, the dot, the star and     *)
(* the backslash; quoteIdentifier is applied once and then to its own      *)
(* result, quoteColumn once.                                               *)
(***************************************************************************)
NameChars == {"a", ".", "*", DoubleQuote, BackQuote, Backslash}

Names == UNION { [1..n -> NameChars] : n \in 1..MaxNameLen }

QuoteInit ==
    /\ Fresh
    /\ input = NoInput
    /\ built = NoBuilt
    /\ ident \in [name : Names, dv : DriverNames]
    /\ quoted = NoQuoted
    /\ failure = NoFailure
    /\ verdict = NoVerdict

quoteIdentifierCall ==
    /\ quoted.op = "none"
    /\ quoted' = [op |-> "identifier",
                  once |-> quoteIdentifier(ident.name, dbDriver(ident.dv)),
                  twice |-> <<>>, again |-> FALSE]
    /\ UNCHANGED << caches, pc, call, stmt, seen, ret, builds, fatal, metadataCalls,
                    input, built, ident, failure, verdict >>

quoteIdentifierAgain ==
    /\ quoted.op = "identifier"
    /\ ~quoted.again
    /\ quoted' = [quoted EXCEPT !.twice = quoteIdentifier(quoted.once, dbDriver(ident.dv)),
                                !.again = TRUE]
    /\ UNCHANGED << caches, pc, call, stmt, seen, ret, builds, fatal, metadataCalls,
                    input, built, ident, failure, verdict >>

quoteColumnCall ==
    /\ quoted.op = "none"
    /\ quoted' = [op |-> "column",
                  once |-> quoteColumn(ident.name, dbDriver(ident.dv)),
                  twice |-> <<>>, again |-> FALSE]
    /\ UNCHANGED << caches, pc, call, stmt, seen, ret, builds, fatal, metadataCalls,
                    input, built, ident, failure, verdict >>

QuoteNext == quoteIdentifierCall \/ quoteIdentifierAgain \/ quoteColumnCall

QuoteSpec == QuoteInit /\ [][QuoteNext]_vars

(***************************************************************************)
(* isConflictError as a function: the message is any text of up to         *)
(* MaxMsgLen fragments, each half of a conflict phrase or other text.      *)
(***************************************************************************)
MessageWords ==
    { PostgresConflict[1], PostgresConflict[2], MysqlConflict[1], MysqlConflict[2],
      Sqlite3Conflict[1], Sqlite3Conflict[2], "pq: other text" }

Messages == UNION { [1..n -> MessageWords] : n \in 0..MaxMsgLen }

ConflictInit ==
    /\ Fresh
    /\ input = NoInput
    /\ built = NoBuilt
    /\ ident = NoIdent
    /\ quoted = NoQuoted
    /\ failure \in [msg : Messages, dv : DriverNames]
    /\ verdict = NoVerdict

isConflictErrorCall ==
    /\ ~verdict.called
    /\ verdict' = [called |-> TRUE, conflict |-> isConflictError(failure.dv, failure.msg)]
    /\ UNCHANGED << caches, pc, call, stmt, seen, ret, builds, fatal, metadataCalls,
                    input, built, ident, quoted, failure >>

ConflictNext == isConflictErrorCall

ConflictSpec == ConflictInit /\ [][ConflictNext]_vars

(***************************************************************************)
(* Properties of the protocol, checked under Spec.                         *)
(***************************************************************************)
\* goroutine p has returned from a call of this kind that reached the handle
Returned(p, kind) ==
    /\ pc[p] = "done"
    /\ call[p].kind = kind
    /\ seen[p].kind # "none"

\* the metadata of the entity of p's call
MdOf(p) == getMetadata(call[p].ent).md

\* C1: the statement caches are safe under concurrent access: no state is
\* reachable in which one caller is about to write a cache map while another
\* caller is about to read or write the same map with nothing ordering them.
C1_NoUnsynchronizedAccess ==
    \A p \in Procs, q \in Procs : ~Racing(p, q)

\* C2: for every entity type and operation kind the statement builder is
\* invoked at most once over the whole run.
C2_BuiltAtMostOnce ==
    \A k \in Kinds, t \in DOMAIN Registry : builds[k, t] <= 1

\* every caller about to execute a statement for a pair holds the text cached
\* for the pair, and two such callers hold the same text
SameTextExecuted ==
    \A p \in Procs :
        pc[p] = "exec" =>
            /\ MdOf(p).Type \in DOMAIN Cache(call[p].kind)
            /\ stmt[p] = Cache(call[p].kind)[MdOf(p).Type]
            /\ \A q \in Procs :
                    (pc[q] = "exec" /\ call[q].kind = call[p].kind
                        /\ call[q].ent = call[p].ent) => stmt[q] = stmt[p]

\* a step keeps every entry the four maps hold
EntriesKept ==
    /\ \A t \in DOMAIN selectStatements :
            t \in DOMAIN selectStatements' /\ selectStatements'[t] = selectStatements[t]
    /\ \A t \in DOMAIN insertStatements :
            t \in DOMAIN insertStatements' /\ insertStatements'[t] = insertStatements[t]
    /\ \A t \in DOMAIN updateStatements :
            t \in DOMAIN updateStatements' /\ updateStatements'[t] = updateStatements[t]
    /\ \A t \in DOMAIN deleteStatements :
            t \in DOMAIN deleteStatements' /\ deleteStatements'[t] = deleteStatements[t]

\* C3: once a statement text is stored in a cache for a pair (entity type,
\* operation kind) the entry never changes value afterwards, and every caller
\* that executes a statement for the pair executes the same text, in every
\* interleaving and with handles of different drivers.
C3_CachedTextImmutable == [][EntriesKept /\ SameTextExecuted']_vars

\* C4: doInsert on an entity type without ReturningInsert columns, on a handle
\* whose resolved dialect is not PostgreSQL, when the command succeeds and
\* LastInsertId succeeds with value v, returns the id v and no error.
C4_InsertReturnsIdWithoutError ==
    \A p \in Procs :
        ( /\ Returned(p, "insert")
          /\ ~MdOf(p).hasReturningInsert
          /\ dbDriver(call[p].dv) # driverPostgres
          /\ seen[p].kind = "done"
          /\ ~seen[p].idErr )
        => (ret[p].id = seen[p].id /\ ret[p].err = Nil)

\* C5: doUpdate on an entity type without ReturningUpdate columns, when the
\* command succeeds and the affected-row count n is reported without error,
\* returns sql.ErrNoRows if and only if n = 0 and success for every n >= 1.
C5_UpdateNotFoundIffNoRowAffected ==
    \A p \in Procs :
        ( /\ Returned(p, "update")
          /\ ~MdOf(p).hasReturningUpdate
          /\ seen[p].kind = "done"
          /\ ~seen[p].nErr )
        => /\ (ret[p].err = ErrNoRows) <=> (seen[p].n = 0)
           /\ (seen[p].n >= 1) => (ret[p].err = Nil)

C5_Witness ==
    \E p \in Procs, q \in Procs :
        /\ Returned(p, "update") /\ ~MdOf(p).hasReturningUpdate
        /\ seen[p] = [kind |-> "done", n |-> 0, nErr |-> FALSE]
        /\ ret[p].err = ErrNoRows
        /\ Returned(q, "update") /\ ~MdOf(q).hasReturningUpdate
        /\ seen[q] = [kind |-> "done", n |-> 1, nErr |-> FALSE]
        /\ ret[q].err = Nil

\* goroutine p has returned from a call that took the row-returning path
ReturnedRows(p) ==
    \/ Returned(p, "select")
    \/ Returned(p, "insert") /\ MdOf(p).hasReturningInsert
    \/ Returned(p, "update") /\ MdOf(p).hasReturningUpdate

\* C6: on every row-returning path (doLoad; doInsert with hasReturningInsert;
\* doUpdate with hasReturningUpdate), if the query succeeds and produces no
\* row, the call returns exactly sql.ErrNoRows and StructScan is not called on
\* the entity; if it produces a row, StructScan is called on the entity and
\* sql.ErrNoRows is not returned.
C6_RowPathNotFoundIffNoRow ==
    \A p \in Procs :
        ReturnedRows(p) =>
            /\ seen[p].kind = "noRows" => (ret[p].err = ErrNoRows /\ ~ret[p].scanned)
            /\ seen[p].kind = "row" => (ret[p].scanned /\ ret[p].err # ErrNoRows)

C6_Witness ==
    \E p \in Procs, q \in Procs :
        /\ Returned(p, "insert") /\ MdOf(p).hasReturningInsert
        /\ seen[p].kind = "noRows" /\ ret[p].err = ErrNoRows /\ ~ret[p].scanned
        /\ Returned(q, "select")
        /\ seen[q].kind = "row" /\ ret[q].scanned /\ ret[q].err = Nil

\* C7: doDelete never inspects the affected-row count: when the command
\* succeeds it returns success, also when no row matched; it never returns
\* sql.ErrNoRows on its own; its result is the error of the execution call.
C7_DeleteReturnsExecutionError ==
    \A p \in Procs :
        Returned(p, "delete") =>
            /\ ~ret[p].askedRows
            /\ ret[p].err # ErrNoRows
            /\ seen[p].kind = "done" => ret[p].err = Nil
            /\ seen[p].kind = "execErr" => ret[p].err = DriverErr

C7_Witness ==
    \E p \in Procs :
        /\ Returned(p, "delete")
        /\ seen[p] = [kind |-> "done", n |-> 0, nErr |-> FALSE]
        /\ ret[p].err = Nil

(***************************************************************************)
(* Properties of the builders, checked under BuildSpec.                    *)
(***************************************************************************)
\* the dialect the builder was called with
Dialect == dbDriver(input.dv)

\* the fragments a text is made of
Fragments(text) == { text[i] : i \in 1..Len(text) }

\* the columns of cols that satisfy Keep, in Columns order
Only(cols, Keep(_)) == SelectSeq(cols, Keep)

\* the quoted names of cols, comma-joined
QuotedList(cols) ==
    Join([i \in 1..Len(cols) |-> quoteColumn(cols[i].DBField, Dialect)], <<", ">>)

\* the placeholders :DBField of cols, comma-joined
PlaceholderList(cols) ==
    Join([i \in 1..Len(cols) |-> <<":">> \o cols[i].DBField], <<", ">>)

\* the assignments <col> = :DBField of cols, comma-joined
AssignmentList(cols) ==
    Join([i \in 1..Len(cols) |->
            quoteColumn(cols[i].DBField, Dialect) \o <<" = ", ":">> \o cols[i].DBField],
         <<", ">>)

InsertValueColumns == Only(input.md.Columns,
                           LAMBDA c : ~c.ReturningInsert /\ ~c.AutoIncrement)

InsertReturningColumns == Only(input.md.Columns, LAMBDA c : c.ReturningInsert)

\* C8: insertStatement puts a column in the column list and, as :DBField, in
\* the VALUES list if and only if it is flagged neither ReturningInsert nor
\* AutoIncrement, both lists in Columns order and of equal length; it puts a
\* column in the RETURNING list if and only if it is flagged ReturningInsert;
\* the RETURNING clause is present if and only if a column is so flagged.
C8_InsertColumnLists ==
    built.kind = "insert" =>
        /\ built.stmt =
              <<"INSERT INTO ">> \o quoteIdentifier(input.md.TableName, Dialect)
              \o <<" (">> \o QuotedList(InsertValueColumns)
              \o <<") VALUES (">> \o PlaceholderList(InsertValueColumns) \o <<")">>
              \o (IF InsertReturningColumns # <<>>
                  THEN <<" RETURNING ">> \o QuotedList(InsertReturningColumns)
                  ELSE <<>>)
        /\ (" RETURNING " \in Fragments(built.stmt))
              <=> (\E i \in 1..Len(input.md.Columns) : input.md.Columns[i].ReturningInsert)

\* a value column, an auto-increment column and a returned column
C8_Witness ==
    /\ built.kind = "insert"
    /\ Len(InsertValueColumns) >= 1
    /\ Len(InsertReturningColumns) >= 1
    /\ \E i \in 1..Len(input.md.Columns) :
            input.md.Columns[i].AutoIncrement /\ ~input.md.Columns[i].ReturningInsert
    /\ " RETURNING " \in Fragments(built.stmt)

UpdateSetColumns == Only(input.md.Columns,
                         LAMBDA c : ~c.ReturningUpdate /\ ~c.RefuseUpdate)

UpdateReturningColumns == Only(input.md.Columns, LAMBDA c : c.ReturningUpdate)

\* the text of an update statement from " SET" up to the WHERE clause, and
\* the text of its RETURNING clause
SetClause(text) ==
    LET from == CHOOSE i \in 1..Len(text) : text[i] = " SET"
        stop == { i \in 1..Len(text) : text[i] \in {" WHERE ", " RETURNING "} }
        to   == IF stop = {} THEN Len(text)
                ELSE (CHOOSE i \in stop : \A j \in stop : i <= j) - 1
    IN  SubSeq(text, from + 1, to)

ReturningClause(text) ==
    LET at == { i \in 1..Len(text) : text[i] = " RETURNING " }
    IN  IF at = {} THEN <<>>
        ELSE SubSeq(text, (CHOOSE i \in at : TRUE) + 1, Len(text))

\* C9: updateStatement puts a column in the SET list, as <col> = :DBField, in
\* Columns order, comma-joined with no leading comma, if and only if it is
\* flagged neither ReturningUpdate nor RefuseUpdate; it puts a column in the
\* RETURNING list if and only if it is flagged ReturningUpdate; no column is
\* in both lists.
C9_UpdateColumnLists ==
    built.kind = "update" =>
        /\ SetClause(built.stmt) =
              IF UpdateSetColumns = <<>> THEN <<>>
              ELSE <<" ">> \o AssignmentList(UpdateSetColumns)
        /\ ReturningClause(built.stmt) = QuotedList(UpdateReturningColumns)
        /\ \A i \in 1..Len(UpdateSetColumns), j \in 1..Len(UpdateReturningColumns) :
              UpdateSetColumns[i] # UpdateReturningColumns[j]

\* a SET column, a refused column and a returned column
C9_Witness ==
    /\ built.kind = "update"
    /\ Len(UpdateSetColumns) >= 1
    /\ Len(UpdateReturningColumns) >= 1
    /\ \E i \in 1..Len(input.md.Columns) :
            input.md.Columns[i].RefuseUpdate /\ ~input.md.Columns[i].ReturningUpdate
    /\ ReturningClause(built.stmt) # <<>>

\* a name between double quotes
InDoubleQuotes(name) == <<DoubleQuote>> \o name \o <<DoubleQuote>>

\* UPDATE "account" SET "email" = :email WHERE "id" = :id
AccountUpdateEmailOnly ==
    <<"UPDATE ">> \o InDoubleQuotes(AccountTable) \o <<" SET">>
    \o <<" ">> \o InDoubleQuotes(EmailField) \o <<" = ", ":">> \o EmailField
    \o <<" WHERE ">> \o InDoubleQuotes(IdField) \o <<" = ", ":">> \o IdField

\* UPDATE "account" SET "id" = :id, "email" = :email WHERE "id" = :id
AccountUpdateIdAndEmail ==
    <<"UPDATE ">> \o InDoubleQuotes(AccountTable) \o <<" SET">>
    \o <<" ">> \o InDoubleQuotes(IdField) \o <<" = ", ":">> \o IdField
    \o <<", ">> \o InDoubleQuotes(EmailField) \o <<" = ", ":">> \o EmailField
    \o <<" WHERE ">> \o InDoubleQuotes(IdField) \o <<" = ", ":">> \o IdField

\* the update statement of this metadata was built for the PostgreSQL dialect
UpdateBuiltOnPostgres(md) ==
    /\ built.kind = "update"
    /\ input.md = md
    /\ Dialect = driverPostgres

\* C10 as stated: for Account with columns ID (primary key, AutoIncrement),
\* Email and CreatedAt (RefuseUpdate), on the PostgreSQL dialect, the update
\* statement is exactly UPDATE "account" SET "email" = :email WHERE "id" = :id.
C10_AccountUpdateSetsEmailOnly ==
    UpdateBuiltOnPostgres(AccountMetadata) => built.stmt = AccountUpdateEmailOnly

\* C10 amended: for that Account the update statement is exactly
\* UPDATE "account" SET "id" = :id, "email" = :email WHERE "id" = :id: CreatedAt
\* is absent from SET, and id, not flagged RefuseUpdate, is in SET and in
\* WHERE; the statement is UPDATE "account" SET "email" = :email WHERE
\* "id" = :id when ID is flagged RefuseUpdate as well.
C10_AccountUpdateSetsIdAndEmail ==
    /\ UpdateBuiltOnPostgres(AccountMetadata) => built.stmt = AccountUpdateIdAndEmail
    /\ UpdateBuiltOnPostgres(AccountKeyRefusedMetadata) =>
            built.stmt = AccountUpdateEmailOnly

C10_Witness ==
    /\ UpdateBuiltOnPostgres(AccountMetadata)
    /\ input.dv = "pgx"
    /\ built.stmt = AccountUpdateIdAndEmail


\* the text of a statement after its WHERE keyword, up to LIMIT 1 or the
\* RETURNING clause
WhereClause(text) ==
    LET at   == { i \in 1..Len(text) : text[i] \in {" WHERE", " WHERE "} }
        stop == { i \in 1..Len(text) : text[i] \in {" LIMIT 1", " RETURNING "} }
        to   == IF stop = {} THEN Len(text)
                ELSE (CHOOSE i \in stop : \A j \in stop : i <= j) - 1
    IN  IF at = {} THEN <<>>
        ELSE SubSeq(text, (CHOOSE i \in at : TRUE) + 1, to)

\* the text of a select statement between SELECT and FROM
SelectList(text) ==
    LET to == CHOOSE i \in 1..Len(text) : text[i] = " FROM "
    IN  SubSeq(text, 2, to - 1)

\* the predicates <pk> = :DBField of pks, joined by AND
PredicateList(pks) ==
    Join([i \in 1..Len(pks) |->
             quoteColumn(pks[i].DBField, Dialect) \o <<" = ", ":">> \o pks[i].DBField],
         <<" AND ">>)

\* how many fragments of text are the fragment f
Count(text, f) == Cardinality({ i \in 1..Len(text) : text[i] = f })

\* C11: for metadata with at least one primary key, the WHERE clause of
\* selectStatement is the predicates <quoted pk> = :<pk>, one per entry of
\* PrimaryKeys, in PrimaryKeys order, joined by AND, followed by LIMIT 1;
\* updateStatement and deleteStatement build the same predicates without
\* LIMIT 1; the SELECT list is the quoted Columns in Columns order.
C11_WherePredicates ==
    (built.kind \in {"select", "update", "delete"} /\ Len(input.md.PrimaryKeys) >= 1) =>
        LET pks   == input.md.PrimaryKeys
            where == WhereClause(built.stmt)
        IN  /\ Count(where, " = ") = Len(pks)
            /\ Count(where, " AND ") = Len(pks) - 1
            /\ built.kind = "select" =>
                 /\ where = <<" ">> \o PredicateList(pks)
                 /\ built.stmt[Len(built.stmt)] = " LIMIT 1"
                 /\ Count(built.stmt, " LIMIT 1") = 1
                 /\ built.stmt[1] = "SELECT "
                 /\ SelectList(built.stmt) = QuotedList(input.md.Columns)
            /\ built.kind = "update" =>
                 /\ where = PredicateList(pks)
                 /\ Count(built.stmt, " LIMIT 1") = 0
            /\ built.kind = "delete" =>
                 /\ where = <<" ">> \o PredicateList(pks)
                 /\ built.stmt[Len(built.stmt)] # " LIMIT 1"
                 /\ Count(built.stmt, " LIMIT 1") = 0

\* a select statement is built for metadata with two primary keys
C11_Witness ==
    /\ built.kind = "select"
    /\ Len(input.md.PrimaryKeys) = 2
    /\ Count(built.stmt, " AND ") = 1


(***************************************************************************)
(* Properties of the quoters, checked under QuoteSpec.                     *)
(***************************************************************************)
\* the quote character of the dialect the quoters were called with
QuoteSymbol == IF dbDriver(ident.dv) = driverMysql THEN BackQuote ELSE DoubleQuote

\* the characters of the name given to the quoters
NameFragments == Fragments(ident.name)

\* C12: for a fixed dialect quoteIdentifier is idempotent: applied to its
\* own result it returns that result, for dot-qualified names, with or
\* without quote characters of the dialect in them, with or without a
\* trailing * segment.
C12_QuoteIdentifierIdempotent ==
    quoted.again => quoted.twice = quoted.once

\* quoteIdentifier was applied twice to a dot-qualified name that holds the
\* quote character of the dialect and ends in a * segment
C12_Witness ==
    /\ quoted.again
    /\ QuoteSymbol \in NameFragments
    /\ Len(Split(ident.name)) = 2
    /\ Split(ident.name)[2] = <<"*">>
    /\ quoted.once # ident.name
    /\ quoted.twice = quoted.once

\* text is wrapped in one pair of the symbol and holds the symbol nowhere
\* else
WrappedOnce(text, symbol) ==
    /\ Len(text) >= 2
    /\ text[1] = symbol
    /\ text[Len(text)] = symbol
    /\ Count(text, symbol) = 2

\* C13: quoteColumn and quoteIdentifier wrap each segment in exactly one
\* pair of backticks on mysql and of double quotes on every other dialect,
\* quoteIdentifier leaving a * segment unquoted, also when the name already
\* holds the quote character of the dialect.
C13_QuotedExactlyOnce ==
    /\ quoted.op = "column" => WrappedOnce(quoted.once, QuoteSymbol)
    /\ quoted.op = "identifier" =>
         LET segs == Split(quoted.once)
         IN  \A i \in 1..Len(segs) :
                 segs[i] = <<"*">> \/ WrappedOnce(segs[i], QuoteSymbol)

(***************************************************************************)
(* Properties of isConflictError, checked under ConflictSpec.              *)
(***************************************************************************)
\* the phrase each known dialect reports a unique-constraint violation with
ConflictPhrase ==
    [d \in {driverPostgres, driverMysql, driverSqlite3} |->
        IF d = driverPostgres THEN <<"duplicate key value violates", " unique constraint">>
        ELSE IF d = driverMysql THEN <<"Duplicate", " entry">>
        ELSE <<"UNIQUE constraint", " failed">>]

\* the text holds the phrase at some position
Holds(text, phrase) ==
    \E i \in 1..Len(text) :
        /\ i + Len(phrase) - 1 <= Len(text)
        /\ \A j \in 1..Len(phrase) : text[i + j - 1] = phrase[j]

\* the dialect of the handle isConflictError was called with, pgx resolved
\* to postgres
ResolvedDialect == IF failure.dv = "pgx" THEN "postgres" ELSE failure.dv

\* C14: isConflictError returns true if and only if the resolved dialect is
\* postgres, mysql or sqlite3 and the message holds the phrase of that same
\* dialect; it returns false for an unrelated message, for a message that
\* holds only the phrase of another dialect, and for an unknown dialect.
C14_ConflictIffOwnPhrase ==
    verdict.called =>
        (verdict.conflict <=>
            /\ ResolvedDialect \in DOMAIN ConflictPhrase
            /\ Holds(failure.msg, ConflictPhrase[ResolvedDialect]))

\* isConflictError said yes for a pgx handle whose message holds the
\* postgres phrase after other text
C14_Witness ==
    /\ verdict.called
    /\ verdict.conflict
    /\ failure.dv = "pgx"
    /\ Len(failure.msg) = 3
    /\ Holds(failure.msg, ConflictPhrase["postgres"])


(***************************************************************************)
(* Further properties of the protocol, checked under Spec.                 *)
(***************************************************************************)
\* goroutine p enters a call in this step and getMetadata fails for its
\* entity
MetadataFails(p) ==
    /\ pc[p] = "idle"
    /\ pc'[p] # "idle"
    /\ getMetadata(call'[p].ent).err # Nil

\* C15: when getMetadata fails, each of doLoad, doInsert, doUpdate and
\* doDelete returns at once an error that wraps the metadata error, with no
\* statement built, no cache changed, no call of the database handle and
\* no second call of getMetadata; doInsert returns id 0 with it.
C15_MetadataFailureReturns ==
    [][\A p \in Procs : MetadataFails(p) =>
          /\ pc'[p] = "done"
          /\ ret'[p].err = <<"get metadata, ">> \o getMetadata(call'[p].ent).err
          /\ ret'[p].id = 0
          /\ ret'[p].queries = 0
          /\ ret'[p].execs = 0
          /\ seen'[p] = NoBehaviour
          /\ stmt'[p] = <<>>
          /\ metadataCalls'[p] = 1
          /\ builds' = builds
          /\ caches' = caches]_vars

\* doInsert has returned the metadata failure of an unregistered type while
\* the other goroutine's call has filled a cache
C15_Witness ==
    \E p \in Procs, q \in Procs :
        /\ pc[p] = "done"
        /\ call[p].kind = "insert"
        /\ call[p].ent = "Broken"
        /\ ret[p].err = <<"get metadata, ">> \o MetadataErr
        /\ metadataCalls[p] = 1
        /\ pc[q] = "exec"
        /\ insertStatements # <<>>

\* C16: every call submits at most one statement to the database handle,
\* exactly one when getMetadata succeeds, and never a second time: after an
\* execution, scan, row-count or last-insert-id error it returns that
\* failure.
C16_OneStatementPerCall ==
    \A p \in Procs :
        /\ pc[p] # "done" => ret[p].queries + ret[p].execs = 0
        /\ pc[p] = "done" =>
             /\ ret[p].queries + ret[p].execs =
                    (IF getMetadata(call[p].ent).err # Nil THEN 0 ELSE 1)
             /\ seen[p].kind \in {"queryErr", "execErr"} => ret[p].err = DriverErr
             /\ (seen[p].kind = "row" /\ seen[p].scanErr) => ret[p].err # Nil
             /\ (ret[p].askedRows /\ seen[p].nErr) => ret[p].err # Nil
             /\ (ret[p].askedId /\ seen[p].idErr) => ret[p].err # Nil

\* doUpdate has returned the failure of RowsAffected after one execution
C16_Witness ==
    \E p \in Procs :
        /\ Returned(p, "update")
        /\ ret[p].askedRows
        /\ seen[p].nErr
        /\ ret[p].execs = 1
        /\ ret[p].err # Nil

\* C17: doInsert for a type without ReturningInsert column, when the
\* command executes, returns id 0 and no error without asking LastInsertId
\* if the driver name is postgres or pgx, and asks LastInsertId on every
\* other driver name.
C17_PostgresSkipsLastInsertId ==
    \A p \in Procs :
        (Returned(p, "insert") /\ ~MdOf(p).hasReturningInsert /\ seen[p].kind = "done") =>
            IF call[p].dv \in {"postgres", "pgx"}
            THEN ret[p].id = 0 /\ ret[p].err = Nil /\ ~ret[p].askedId
            ELSE ret[p].askedId /\ ret[p].id = seen[p].id

\* doInsert on a pgx handle whose driver would have reported id 1 returned
\* id 0, and on an unknown driver asked for the id
C17_Witness ==
    \E p \in Procs, q \in Procs :
        /\ Returned(p, "insert")
        /\ call[p].dv = "pgx"
        /\ seen[p].kind = "done"
        /\ seen[p].id = 1
        /\ ret[p].id = 0
        /\ ~ret[p].askedId
        /\ Returned(q, "insert")
        /\ call[q].dv = "oracle"
        /\ ret[q].askedId


\* C18: the text a call submits to its handle is the text the builder of
\* its kind produces for its entity type and the resolved dialect of that
\* handle, on a cache hit as on a fresh build, whatever drivers the calls
\* before it used.
C18_SubmittedTextOfOwnDialect ==
    \A p \in Procs :
        pc[p] = "exec" =>
            stmt[p] = Build(call[p].kind, MdOf(p), dbDriver(call[p].dv))

\* the descriptor of the entity type of goroutine p's call declares a
\* primary key
HasPrimaryKey(p) ==
    /\ call[p].ent \in DOMAIN Registry
    /\ Len(Registry[call[p].ent].PrimaryKeys) >= 1

StoresAbsent(p, k) ==
    /\ pc[p] = "store"
    /\ pc'[p] = "exec"
    /\ call[p].kind = k
    /\ call[p].ent \notin DOMAIN Cache(k)
    /\ Cache(k)' = Put(Cache(k), call[p].ent, stmt[p])

\* C20: an operation of kind K on type T changes at most the entry of T in
\* the cache of kind K, and only when that entry was absent; the other
\* three caches and the entries of the other types stay as they were; the
\* entry is stored before the statement is executed, so it is there when
\* the execution fails.
C20_CacheFrame ==
    [][/\ \A k \in Kinds :
            Cache(k)' # Cache(k) =>
                /\ \E p \in Procs : StoresAbsent(p, k)
                /\ \A j \in Kinds \ {k} : Cache(j)' = Cache(j)
       /\ \A p \in Procs :
            (pc'[p] = "exec" \/ (pc'[p] = "done" /\ seen'[p].kind # "none")) =>
                \E k \in Kinds : call'[p].kind = k /\ call'[p].ent \in DOMAIN Cache(k)']_vars

=============================================================================
